---- MODULE Spec2Model ----
(***************************************************************************)
(* Model of the Rent-in-Addis property-management application (app.py):    *)
(* three SQLite tables (users, apartments, tenants), one browser session,  *)
(* and one action per Flask request handler.                               *)
(*                                                                         *)
(* Strings that the code parses (bedrooms, bathrooms, rent, apartment_id)  *)
(* are sequences of one-character strings, so that int() and float() are   *)
(* computed from the characters.  Other text is a TLA+ string, "" being    *)
(* the empty string.  A form is a function whose DOMAIN is the set of keys *)
(* the request carries.  A nullable column holds <<>> for NULL and <<v>>   *)
(* for the value v.  conn is the storage connection of the last request:   *)
(* not opened, open, or closed.                                            *)
(***************************************************************************)
EXTENDS Integers, Sequences, FiniteSets, TLC

VARIABLES users, apartments, tenants, seq, writes, session, conn, resp

vars == <<users, apartments, tenants, seq, writes, session, conn, resp>>

tables == <<users, apartments, tenants, seq, writes>>

(* Statements that may write a row (INSERT, UPDATE, DELETE) after seeding. *)
MaxWrites == 2

(***************************************************************************)
(* Python and SQLite values                                                *)
(***************************************************************************)
NULL == <<>>

Some(v) == <<v>>

Digits == {"0", "1", "2", "3", "4", "5", "6", "7", "8", "9"}

DigitVal(c) ==
    CASE c = "0" -> 0 [] c = "1" -> 1 [] c = "2" -> 2 [] c = "3" -> 3
      [] c = "4" -> 4 [] c = "5" -> 5 [] c = "6" -> 6 [] c = "7" -> 7
      [] c = "8" -> 8 [] c = "9" -> 9

RECURSIVE Strip(_)
(* str.strip() as int() and float() apply it: blanks at both ends go. *)
Strip(s) ==
    IF s = <<>> THEN s
    ELSE IF Head(s) = " " THEN Strip(Tail(s))
    ELSE IF s[Len(s)] = " " THEN Strip(SubSeq(s, 1, Len(s) - 1))
    ELSE s

AllDigits(s) == s # <<>> /\ \A i \in 1..Len(s) : s[i] \in Digits

RECURSIVE DigitsVal(_)
DigitsVal(s) ==
    IF s = <<>> THEN 0
    ELSE 10 * DigitsVal(SubSeq(s, 1, Len(s) - 1)) + DigitVal(s[Len(s)])

Unsigned(s) == IF s # <<>> /\ Head(s) \in {"+", "-"} THEN Tail(s) ELSE s

Sign(s) == IF s # <<>> /\ Head(s) = "-" THEN -1 ELSE 1

(* int(s): an optional sign and decimal digits, else ValueError. *)
IntOk(s) == AllDigits(Unsigned(Strip(s)))

IntVal(s) == Sign(Strip(s)) * DigitsVal(Unsigned(Strip(s)))

DotAt(s) == IF \E i \in 1..Len(s) : s[i] = "."
            THEN CHOOSE i \in 1..Len(s) : s[i] = "." /\ \A j \in 1..(i - 1) : s[j] # "."
            ELSE 0

RECURSIVE Pow10(_)
Pow10(n) == IF n = 0 THEN 1 ELSE 10 * Pow10(n - 1)

RECURSIVE Normal(_)
(* A decimal m / 10^d with no trailing zero in the fraction. *)
Normal(x) ==
    IF x.d > 0 /\ x.m % 10 = 0 THEN Normal([x EXCEPT !.m = x.m \div 10, !.d = x.d - 1])
    ELSE x

NaN == [k |-> "nan", m |-> 0, d |-> 0]

Inf(sign) == [k |-> "inf", m |-> sign, d |-> 0]

Finite(m, d) == Normal([k |-> "fin", m |-> m, d |-> d])

FloatWord(u) == u \in {<<"n", "a", "n">>, <<"i", "n", "f">>,
                       <<"i", "n", "f", "i", "n", "i", "t", "y">>}

FloatDecimalOk(u) ==
    LET p == DotAt(u)
        ip == IF p = 0 THEN u ELSE SubSeq(u, 1, p - 1)
        fp == IF p = 0 THEN <<>> ELSE SubSeq(u, p + 1, Len(u))
    IN  /\ ip # <<>> \/ fp # <<>>
        /\ ip = <<>> \/ AllDigits(ip)
        /\ fp = <<>> \/ AllDigits(fp)

(* float(s): a signed decimal, nan, inf or infinity, else ValueError. *)
FloatOk(s) == LET u == Unsigned(Strip(s)) IN FloatWord(u) \/ FloatDecimalOk(u)

FloatVal(s) ==
    LET t == Strip(s)
        u == Unsigned(t)
        p == DotAt(u)
        ip == IF p = 0 THEN u ELSE SubSeq(u, 1, p - 1)
        fp == IF p = 0 THEN <<>> ELSE SubSeq(u, p + 1, Len(u))
    IN  IF u = <<"n", "a", "n">> THEN NaN
        ELSE IF FloatWord(u) THEN Inf(Sign(t))
        ELSE Finite(Sign(t) * (DigitsVal(ip) * Pow10(Len(fp)) + DigitsVal(fp)), Len(fp))

(* x <= 0 on Python floats: every comparison with nan is False. *)
FloatLeqZero(x) == x.k # "nan" /\ x.m <= 0

(* x < y on SQLite REAL values. *)
RealLess(x, y) ==
    CASE x.k = "inf" -> x.m < 0 /\ y # x
      [] y.k = "inf" -> y.m > 0
      [] OTHER -> x.m * Pow10(y.d) < y.m * Pow10(x.d)

(* sqlite3 binds a Python float; SQLite stores a NaN as NULL. *)
BindReal(x) == IF x.k = "nan" THEN NULL ELSE Some(x)

(***************************************************************************)
(* werkzeug.security: a salted one-way hash, kept as salt and digest.      *)
(***************************************************************************)
Salts == {"s1", "s2"}

CharCode(c) ==
    CASE c = "s1" -> 3 [] c = "s2" -> 5
      [] c \in Digits -> 10 + DigitVal(c)
      [] c = "a" -> 21 [] c = "b" -> 22 [] c = "p" -> 23 [] c = "w" -> 24
      [] OTHER -> 29

RECURSIVE Digest(_, _)
Digest(salt, pw) ==
    IF pw = <<>> THEN CharCode(salt)
    ELSE (31 * Digest(salt, SubSeq(pw, 1, Len(pw) - 1)) + CharCode(pw[Len(pw)])) % 997

generate_password_hash(pw, salt) == [salt |-> salt, digest |-> Digest(salt, pw)]

(* A check that never compares the digests. *)
AcceptAnyPassword(pwhash, pw) == TRUE

check_password_hash(pwhash, pw) == Digest(pwhash.salt, pw) = pwhash.digest

(***************************************************************************)
(* Connections.  conn is the handle of the request that has just finished, *)
(* as the view function left it when it returned or raised: each request   *)
(* that reaches get_db_connection gets a handle of its own.                *)
(***************************************************************************)
(* The request finished without calling get_db_connection. *)
NoConnection == "none"

(* sqlite3.connect(...): a fresh handle, open. *)
get_db_connection == "open"

(* conn.close(): the handle is closed; closing it twice changes nothing. *)
close(c) == IF c = NoConnection THEN c ELSE "closed"

(***************************************************************************)
(* The storage engine: the schema of init_db with foreign_keys = ON.       *)
(***************************************************************************)
(* The check as it is when a connection leaves foreign_keys off. *)
ForeignKeysOff(apts, apartment_id) == TRUE

(* tenants.apartment_id REFERENCES apartments (id): checked on every       *)
(* INSERT and UPDATE of a tenant row.                                      *)
ForeignKeyOk(apts, apartment_id) ==
    apartment_id = NULL \/ apartment_id[1] \in DOMAIN apts

(* The users table without the UNIQUE index on email. *)
NoUniqueIndex(usrs, email) == TRUE

(* users.email UNIQUE (BINARY collation: case-sensitive). *)
EmailUnique(usrs, email) == \A u \in DOMAIN usrs : usrs[u].email # email

InsertRow(table, id, row) ==
    [i \in DOMAIN table \cup {id} |-> IF i = id THEN row ELSE table[i]]

DeleteRow(table, id) == [i \in DOMAIN table \ {id} |-> table[i]]

UpdateRow(table, id, row) == [table EXCEPT ![id] = row]

(* The action ON DELETE CASCADE would take instead. *)
OnDeleteCascade(tnts, id) ==
    [t \in {x \in DOMAIN tnts : tnts[x].apartment_id # Some(id)} |-> tnts[t]]

(* ON DELETE SET NULL: the action the engine takes on the child rows. *)
OnDeleteSetNull(tnts, id) ==
    [t \in DOMAIN tnts |->
        IF tnts[t].apartment_id = Some(id)
        THEN [tnts[t] EXCEPT !.apartment_id = NULL]
        ELSE tnts[t]]

(* apartments a LEFT JOIN tenants t ON a.id = t.apartment_id: one row per  *)
(* matching pair, and one row with t NULL for an apartment with no match.  *)
LeftJoin(apts, tnts) ==
    LET matched == {p \in (DOMAIN apts) \X {Some(t) : t \in DOMAIN tnts} :
                        tnts[p[2][1]].apartment_id = Some(p[1])}
        unmatched == {a \in DOMAIN apts : \A p \in matched : p[1] # a}
    IN  matched \cup {<<a, NULL>> : a \in unmatched}

(* The t.apartment_id column of a joined row. *)
JoinedApartmentId(tnts, p) == IF p[2] = NULL THEN NULL ELSE tnts[p[2][1]].apartment_id

(* ORDER BY rent DESC over joined rows: NULL sorts below every value; rows *)
(* of equal rent come out in rowid order.                                  *)
RentBefore(apts, p, q) ==
    LET x == apts[p[1]].rent
        y == apts[q[1]].rent
    IN  IF x = y THEN p[1] < q[1] \/ (p[1] = q[1] /\ p[2] # NULL /\ (q[2] = NULL \/ p[2][1] < q[2][1]))
        ELSE IF y = NULL THEN TRUE
        ELSE IF x = NULL THEN FALSE
        ELSE RealLess(y[1], x[1])

RECURSIVE OrderByRentDesc(_, _)
OrderByRentDesc(apts, rows) ==
    IF rows = {} THEN <<>>
    ELSE LET first == CHOOSE p \in rows : \A q \in rows \ {p} : RentBefore(apts, p, q)
         IN  <<first>> \o OrderByRentDesc(apts, rows \ {first})

(***************************************************************************)
(* init_db: the seeded database                                            *)
(***************************************************************************)
SeedApartments ==
    <<[name |-> "Goro Deluxe Apt", bedrooms |-> 3, bathrooms |-> 2,
       location |-> "Goro", rent |-> Some(Finite(15000, 0))],
      [name |-> "Kazanchis Studio", bedrooms |-> 1, bathrooms |-> 1,
       location |-> "Kazanchis", rent |-> Some(Finite(8000, 0))],
      [name |-> "Bole Road Family Home", bedrooms |-> 4, bathrooms |-> 3,
       location |-> "Bole", rent |-> Some(Finite(25000, 0))]>>

SeedTenants ==
    <<[fullName |-> "Abebe Kebede", phone |-> "0911223344",
       email |-> Some("abebek@example.com"), apartment_id |-> Some(1),
       lease_start |-> "2024-01-01"]>>

NoRows == [i \in {} |-> NULL]

NoSession == [k \in {} |-> NULL]

Resp(handler, outcome, body) == [handler |-> handler, outcome |-> outcome, body |-> body]

Init ==
    /\ users = NoRows
    /\ apartments = SeedApartments
    /\ tenants = SeedTenants
    /\ seq = [users |-> 0, apartments |-> Len(SeedApartments), tenants |-> Len(SeedTenants)]
    /\ writes = 0
    /\ session = NoSession
    /\ conn = close(get_db_connection)
    /\ resp = Resp("init_db", "ok", <<>>)

(* A statement that writes a row: enabled while the bound allows it. *)
Write == writes < MaxWrites /\ writes' = writes + 1

(***************************************************************************)
(* Requests                                                                *)
(***************************************************************************)
Methods == {"GET", "POST"}

NoForm == [k \in {} |-> ""]

Without(form, key) == [k \in DOMAIN form \ {key} |-> form[k]]

(* request.form.get(key) is truthy: the key is there and not empty. *)
TextGiven(form, key) == key \in DOMAIN form /\ form[key] # ""

CharsGiven(form, key) == key \in DOMAIN form /\ form[key] # <<>>

RegisterForm ==
    [fullName |-> "Hana Tesfaye", email |-> "hana@addis.et", phone |-> "0911000001",
     password |-> <<"p", "w", "1">>]

RegisterForms ==
    { RegisterForm,
      [RegisterForm EXCEPT !.fullName = "Dawit Bekele", !.password = <<"p", "w", "2">>],
      [RegisterForm EXCEPT !.phone = ""],
      Without(RegisterForm, "password") }

LoginForm == [loginEmail |-> "hana@addis.et", loginPassword |-> <<"p", "w", "1">>]

LoginForms ==
    { LoginForm,
      [LoginForm EXCEPT !.loginPassword = <<"p", "w", "2">>],
      [LoginForm EXCEPT !.loginEmail = "Hana@addis.et"],
      [LoginForm EXCEPT !.loginEmail = "nobody@addis.et"],
      [LoginForm EXCEPT !.loginPassword = <<>>],
      Without(LoginForm, "loginEmail") }

ApartmentForm ==
    [name |-> "Bole Flat", location |-> "Bole", bedrooms |-> <<"2">>,
     bathrooms |-> <<" ", "1">>, rent |-> <<"9", "5", "0", "0", ".", "5", "0">>]

ApartmentForms ==
    { ApartmentForm,
      [ApartmentForm EXCEPT !.name = ""],
      [ApartmentForm EXCEPT !.location = ""],
      [ApartmentForm EXCEPT !.bedrooms = <<"0">>],
      [ApartmentForm EXCEPT !.bedrooms = <<"1", ".", "5">>],
      [ApartmentForm EXCEPT !.bathrooms = <<"-", "1">>],
      [ApartmentForm EXCEPT !.rent = <<"a", "b", "c">>],
      [ApartmentForm EXCEPT !.rent = <<"n", "a", "n">>],
      [ApartmentForm EXCEPT !.rent = <<>>],
      Without(ApartmentForm, "bathrooms") }

TenantForm ==
    [fullName |-> "Sara Alemu", phone |-> "0922000002", email |-> "sara@addis.et",
     apartment_id |-> <<"N", "o", "n", "e">>, lease_start |-> "2024-06-01"]

TenantForms ==
    { TenantForm,
      [TenantForm EXCEPT !.apartment_id = <<"1">>],
      [TenantForm EXCEPT !.apartment_id = <<"2">>],
      [TenantForm EXCEPT !.apartment_id = <<"9">>],
      [TenantForm EXCEPT !.apartment_id = <<"a", "b", "c">>],
      [TenantForm EXCEPT !.apartment_id = <<>>],
      Without(TenantForm, "apartment_id"),
      [TenantForm EXCEPT !.phone = ""] }

(* The ids a request may name: every row of the table and one absent id. *)
ApartmentIds == DOMAIN apartments \cup {seq.apartments + 1}

TenantIds == DOMAIN tenants \cup {seq.tenants + 1}

(***************************************************************************)
(* Session guard                                                           *)
(***************************************************************************)
LoggedIn == "logged_in" \in DOMAIN session /\ session.logged_in

(* The guard as it is when the delete routes lack the decorator. *)
GuardForgottenOnDelete(handler, view) ==
    IF ~LoggedIn /\ handler \notin {"delete_apartment", "delete_tenant"}
    THEN /\ conn' = NoConnection
         /\ resp' = Resp(handler, "login_required", <<>>)
         /\ UNCHANGED <<tables, session>>
    ELSE view

(* The wrapper of login_required: without the flag, redirect to home. *)
login_required(handler, view) ==
    IF ~LoggedIn
    THEN /\ conn' = NoConnection
         /\ resp' = Resp(handler, "login_required", <<>>)
         /\ UNCHANGED <<tables, session>>
    ELSE view

(***************************************************************************)
(* Public listing                                                          *)
(***************************************************************************)
ApartmentRow(apts, id) ==
    [id |-> id, name |-> apts[id].name, bedrooms |-> apts[id].bedrooms,
     bathrooms |-> apts[id].bathrooms, location |-> apts[id].location,
     rent |-> apts[id].rent]

(* The listing with the WHERE clause left out: every joined row. *)
AllJoinedApartments(apts, tnts) ==
    LET sorted == OrderByRentDesc(apts, LeftJoin(apts, tnts))
    IN  [i \in 1..Len(sorted) |-> ApartmentRow(apts, sorted[i][1])]

(* SELECT a.* ... LEFT JOIN ... WHERE t.apartment_id IS NULL ORDER BY a.rent DESC *)
AvailableApartments(apts, tnts) ==
    LET rows == {p \in LeftJoin(apts, tnts) : JoinedApartmentId(tnts, p) = NULL}
        sorted == OrderByRentDesc(apts, rows)
    IN  [i \in 1..Len(sorted) |-> ApartmentRow(apts, sorted[i][1])]

home ==
    /\ conn' = close(get_db_connection)
    /\ resp' = Resp("home", "ok", AvailableApartments(apartments, tenants))
    /\ UNCHANGED <<tables, session>>

(***************************************************************************)
(* Authentication                                                          *)
(***************************************************************************)
register(form, salt) ==
    IF ~({"fullName", "email", "phone", "password"} \subseteq DOMAIN form)
    THEN /\ conn' = NoConnection
         /\ resp' = Resp("register", "bad_request", <<>>)
         /\ UNCHANGED <<tables, session>>
    ELSE IF ~(/\ TextGiven(form, "fullName") /\ TextGiven(form, "email")
              /\ TextGiven(form, "phone") /\ CharsGiven(form, "password"))
    THEN /\ conn' = NoConnection
         /\ resp' = Resp("register", "required", <<>>)
         /\ UNCHANGED <<tables, session>>
    ELSE IF ~EmailUnique(users, form.email)
    THEN /\ conn' = close(get_db_connection)
         /\ resp' = Resp("register", "duplicate_email", <<>>)
         /\ UNCHANGED <<tables, session>>
    ELSE /\ Write
         /\ users' = InsertRow(users, seq.users + 1,
                [fullName |-> form.fullName, email |-> form.email, phone |-> form.phone,
                 password |-> generate_password_hash(form.password, salt)])
         /\ seq' = [seq EXCEPT !.users = @ + 1]
         /\ conn' = close(get_db_connection)
         /\ resp' = Resp("register", "ok", <<>>)
         /\ UNCHANGED <<apartments, tenants, session>>

(* SELECT * FROM users WHERE email = ? ... fetchone() *)
UserByEmail(usrs, email) == {u \in DOMAIN usrs : usrs[u].email = email}

login(form) ==
    IF ~(TextGiven(form, "loginEmail") /\ CharsGiven(form, "loginPassword"))
    THEN /\ conn' = NoConnection
         /\ resp' = Resp("login", "required", <<>>)
         /\ UNCHANGED <<tables, session>>
    ELSE LET found == UserByEmail(users, form.loginEmail)
         IN  IF \E u \in found : check_password_hash(users[u].password, form.loginPassword)
             THEN LET u == CHOOSE u \in found : TRUE
                  IN  /\ session' = [logged_in |-> TRUE, user_id |-> u,
                                     user_name |-> users[u].fullName]
                      /\ conn' = close(get_db_connection)
                      /\ resp' = Resp("login", "ok", <<>>)
                      /\ UNCHANGED tables
             ELSE /\ conn' = close(get_db_connection)
                  /\ resp' = Resp("login", "invalid_credentials", <<>>)
                  /\ UNCHANGED <<tables, session>>

logout ==
    /\ session' = NoSession
    /\ conn' = NoConnection
    /\ resp' = Resp("logout", "ok", <<>>)
    /\ UNCHANGED tables

(***************************************************************************)
(* Dashboard                                                               *)
(***************************************************************************)
(* SELECT COUNT(id) FROM apartments *)
TotalApartments(apts) == Cardinality(DOMAIN apts)

(* COUNT(apartment_id), without DISTINCT: one per assigned tenant. *)
AssignedTenants(tnts) == Cardinality({t \in DOMAIN tnts : tnts[t].apartment_id # NULL})

(* SELECT COUNT(DISTINCT apartment_id) FROM tenants WHERE apartment_id IS NOT NULL *)
OccupiedUnits(tnts) ==
    Cardinality({tnts[t].apartment_id : t \in {x \in DOMAIN tnts : tnts[x].apartment_id # NULL}})

(* SELECT COUNT(id) FROM tenants *)
TotalTenants(tnts) == Cardinality(DOMAIN tnts)

DashboardFigures(apts, tnts) ==
    LET total_apartments == TotalApartments(apts)
        occupied_units == OccupiedUnits(tnts)
    IN  [total_apartments |-> total_apartments,
         occupied_units |-> occupied_units,
         available_apartments |-> total_apartments - occupied_units,
         total_tenants |-> TotalTenants(tnts)]

Dashboard ==
    /\ conn' = close(get_db_connection)
    /\ resp' = Resp("dashboard", "ok",
                    [user_name |-> session.user_name,
                     figures |-> DashboardFigures(apartments, tenants)])
    /\ UNCHANGED <<tables, session>>

dashboard == login_required("dashboard", Dashboard)

(***************************************************************************)
(* Apartment management                                                    *)
(***************************************************************************)
(* The try block shared by add_apartment and edit_apartment, once the      *)
(* three keys are there: int(), int(), float(), then the sign test.        *)
NumbersParse(form) ==
    IntOk(form.bedrooms) /\ IntOk(form.bathrooms) /\ FloatOk(form.rent)

NumbersPositive(form) ==
    ~(\/ IntVal(form.bedrooms) <= 0
      \/ IntVal(form.bathrooms) <= 0
      \/ FloatLeqZero(FloatVal(form.rent)))

ApartmentFromForm(form) ==
    [name |-> form.name, bedrooms |-> IntVal(form.bedrooms),
     bathrooms |-> IntVal(form.bathrooms), location |-> form.location,
     rent |-> BindReal(FloatVal(form.rent))]

(* add_apartment, POST: "ok" when the form is stored, else the failure. *)
AddApartmentOutcome(form) ==
    IF ~(/\ TextGiven(form, "name") /\ TextGiven(form, "location")
         /\ CharsGiven(form, "bedrooms") /\ CharsGiven(form, "bathrooms")
         /\ CharsGiven(form, "rent"))
    THEN "required"
    ELSE IF ~NumbersParse(form) THEN "data_error"
    ELSE IF ~NumbersPositive(form) THEN "data_error"
    ELSE "ok"

AddApartment(method, form) ==
    IF method = "GET"
    THEN /\ conn' = NoConnection
         /\ resp' = Resp("add_apartment", "form", <<>>)
         /\ UNCHANGED <<tables, session>>
    ELSE IF AddApartmentOutcome(form) # "ok"
    THEN /\ conn' = NoConnection
         /\ resp' = Resp("add_apartment", AddApartmentOutcome(form), <<>>)
         /\ UNCHANGED <<tables, session>>
    ELSE /\ Write
         /\ apartments' = InsertRow(apartments, seq.apartments + 1, ApartmentFromForm(form))
         /\ seq' = [seq EXCEPT !.apartments = @ + 1]
         /\ conn' = close(get_db_connection)
         /\ resp' = Resp("add_apartment", "ok", <<>>)
         /\ UNCHANGED <<users, tenants, session>>

add_apartment(method, form) == login_required("add_apartment", AddApartment(method, form))

(* COUNT(t.id) AS tenant_count ... GROUP BY a.id *)
TenantCount(apts, tnts) ==
    [a \in DOMAIN apts |->
        Cardinality({p \in LeftJoin(apts, tnts) : p[1] = a /\ p[2] # NULL})]

ManageApartments ==
    /\ conn' = close(get_db_connection)
    /\ resp' = Resp("manage_apartments", "ok", TenantCount(apartments, tenants))
    /\ UNCHANGED <<tables, session>>

manage_apartments == login_required("manage_apartments", ManageApartments)

(* edit_apartment, POST on an existing id: request.form[key] raises a 400  *)
(* for a missing key, int() and float() a ValueError for a bad number.     *)
EditApartmentOutcome(form) ==
    IF ~({"name", "location"} \subseteq DOMAIN form) THEN "bad_request"
    ELSE IF "bedrooms" \notin DOMAIN form THEN "bad_request"
    ELSE IF ~IntOk(form.bedrooms) THEN "data_error"
    ELSE IF "bathrooms" \notin DOMAIN form THEN "bad_request"
    ELSE IF ~IntOk(form.bathrooms) THEN "data_error"
    ELSE IF "rent" \notin DOMAIN form THEN "bad_request"
    ELSE IF ~FloatOk(form.rent) THEN "data_error"
    ELSE IF ~NumbersPositive(form) THEN "data_error"
    ELSE "ok"

EditApartment(id, method, form) ==
    IF id \notin DOMAIN apartments
    THEN /\ conn' = close(get_db_connection)
         /\ resp' = Resp("edit_apartment", "not_found", <<>>)
         /\ UNCHANGED <<tables, session>>
    ELSE IF method = "GET"
    THEN /\ conn' = close(get_db_connection)
         /\ resp' = Resp("edit_apartment", "form", <<>>)
         /\ UNCHANGED <<tables, session>>
    ELSE IF EditApartmentOutcome(form) # "ok"
    THEN /\ conn' = IF EditApartmentOutcome(form) = "bad_request"
                     THEN get_db_connection ELSE close(get_db_connection)
         /\ resp' = Resp("edit_apartment", EditApartmentOutcome(form), <<>>)
         /\ UNCHANGED <<tables, session>>
    ELSE /\ Write
         /\ apartments' = UpdateRow(apartments, id, ApartmentFromForm(form))
         /\ conn' = close(get_db_connection)
         /\ resp' = Resp("edit_apartment", "ok", <<>>)
         /\ UNCHANGED <<users, tenants, seq, session>>

edit_apartment(id, method, form) ==
    login_required("edit_apartment", EditApartment(id, method, form))

(* DELETE FROM apartments WHERE id = ?, with the foreign key's action. *)
DeleteApartment(id) ==
    IF id \in DOMAIN apartments
    THEN /\ Write
         /\ apartments' = DeleteRow(apartments, id)
         /\ tenants' = OnDeleteSetNull(tenants, id)
         /\ conn' = close(get_db_connection)
         /\ resp' = Resp("delete_apartment", "ok", <<>>)
         /\ UNCHANGED <<users, seq, session>>
    ELSE /\ conn' = close(get_db_connection)
         /\ resp' = Resp("delete_apartment", "ok", <<>>)
         /\ UNCHANGED <<tables, session>>

delete_apartment(id) == login_required("delete_apartment", DeleteApartment(id))

(***************************************************************************)
(* Tenant management                                                       *)
(***************************************************************************)
TenantRequired(form) ==
    TextGiven(form, "fullName") /\ TextGiven(form, "phone") /\ TextGiven(form, "lease_start")

(* apartment_id and apartment_id != 'None' *)
ApartmentChosen(form) ==
    CharsGiven(form, "apartment_id") /\ form.apartment_id # <<"N", "o", "n", "e">>

apt_id_for_db(form) == IF ApartmentChosen(form) THEN Some(IntVal(form.apartment_id)) ELSE NULL

TenantFromForm(form) ==
    [fullName |-> form.fullName, phone |-> form.phone,
     email |-> IF "email" \in DOMAIN form THEN Some(form.email) ELSE NULL,
     apartment_id |-> apt_id_for_db(form), lease_start |-> form.lease_start]

AddTenant(method, form) ==
    IF method = "GET"
    THEN /\ conn' = get_db_connection
         /\ resp' = Resp("add_tenant", "form", <<>>)
         /\ UNCHANGED <<tables, session>>
    ELSE IF ~TenantRequired(form)
    THEN /\ conn' = close(get_db_connection)
         /\ resp' = Resp("add_tenant", "required", <<>>)
         /\ UNCHANGED <<tables, session>>
    ELSE IF ApartmentChosen(form) /\ ~IntOk(form.apartment_id)
    THEN /\ conn' = close(get_db_connection)
         /\ resp' = Resp("add_tenant", "invalid_apartment", <<>>)
         /\ UNCHANGED <<tables, session>>
    ELSE IF ~ForeignKeyOk(apartments, apt_id_for_db(form))
    THEN /\ conn' = close(get_db_connection)
         /\ resp' = Resp("add_tenant", "db_error", <<>>)
         /\ UNCHANGED <<tables, session>>
    ELSE /\ Write
         /\ tenants' = InsertRow(tenants, seq.tenants + 1, TenantFromForm(form))
         /\ seq' = [seq EXCEPT !.tenants = @ + 1]
         /\ conn' = close(get_db_connection)
         /\ resp' = Resp("add_tenant", "ok", <<>>)
         /\ UNCHANGED <<users, apartments, session>>

add_tenant(method, form) == login_required("add_tenant", AddTenant(method, form))

(* tenants t LEFT JOIN apartments a ON t.apartment_id = a.id *)
TenantListing(apts, tnts) ==
    [t \in DOMAIN tnts |->
        [fullName |-> tnts[t].fullName,
         apartment_name |->
            IF tnts[t].apartment_id # NULL /\ tnts[t].apartment_id[1] \in DOMAIN apts
            THEN Some(apts[tnts[t].apartment_id[1]].name) ELSE NULL]]

ManageTenants ==
    /\ conn' = close(get_db_connection)
    /\ resp' = Resp("manage_tenants", "ok", TenantListing(apartments, tenants))
    /\ UNCHANGED <<tables, session>>

manage_tenants == login_required("manage_tenants", ManageTenants)

EditTenant(id, method, form) ==
    IF id \notin DOMAIN tenants
    THEN /\ conn' = close(get_db_connection)
         /\ resp' = Resp("edit_tenant", "not_found", <<>>)
         /\ UNCHANGED <<tables, session>>
    ELSE IF method = "GET"
    THEN /\ conn' = close(get_db_connection)
         /\ resp' = Resp("edit_tenant", "form", <<>>)
         /\ UNCHANGED <<tables, session>>
    ELSE IF ~TenantRequired(form)
    THEN /\ conn' = close(get_db_connection)
         /\ resp' = Resp("edit_tenant", "required", <<>>)
         /\ UNCHANGED <<tables, session>>
    ELSE IF ApartmentChosen(form) /\ ~IntOk(form.apartment_id)
    THEN \* int() raises ValueError outside any try: the request ends in a 500
         /\ conn' = get_db_connection
         /\ resp' = Resp("edit_tenant", "exception", <<>>)
         /\ UNCHANGED <<tables, session>>
    ELSE IF ~ForeignKeyOk(apartments, apt_id_for_db(form))
    THEN /\ conn' = close(get_db_connection)
         /\ resp' = Resp("edit_tenant", "db_error", <<>>)
         /\ UNCHANGED <<tables, session>>
    ELSE /\ Write
         /\ tenants' = UpdateRow(tenants, id, TenantFromForm(form))
         /\ conn' = close(get_db_connection)
         /\ resp' = Resp("edit_tenant", "ok", <<>>)
         /\ UNCHANGED <<users, apartments, seq, session>>

edit_tenant(id, method, form) == login_required("edit_tenant", EditTenant(id, method, form))

DeleteTenant(id) ==
    IF id \in DOMAIN tenants
    THEN /\ Write
         /\ tenants' = DeleteRow(tenants, id)
         /\ conn' = close(get_db_connection)
         /\ resp' = Resp("delete_tenant", "ok", <<>>)
         /\ UNCHANGED <<users, apartments, seq, session>>
    ELSE /\ conn' = get_db_connection
         /\ resp' = Resp("delete_tenant", "not_found", <<>>)
         /\ UNCHANGED <<tables, session>>

delete_tenant(id) == login_required("delete_tenant", DeleteTenant(id))

(***************************************************************************)
(* One request at a time                                                   *)
(***************************************************************************)
Next ==
    \/ home
    \/ \E form \in RegisterForms, salt \in Salts : register(form, salt)
    \/ \E form \in LoginForms : login(form)
    \/ logout
    \/ dashboard
    \/ \E form \in ApartmentForms : add_apartment("POST", form)
    \/ add_apartment("GET", NoForm)
    \/ manage_apartments
    \/ \E id \in ApartmentIds, form \in ApartmentForms : edit_apartment(id, "POST", form)
    \/ \E id \in ApartmentIds : edit_apartment(id, "GET", NoForm)
    \/ \E id \in ApartmentIds : delete_apartment(id)
    \/ \E form \in TenantForms : add_tenant("POST", form)
    \/ add_tenant("GET", NoForm)
    \/ manage_tenants
    \/ \E id \in TenantIds, form \in TenantForms : edit_tenant(id, "POST", form)
    \/ \E id \in TenantIds : edit_tenant(id, "GET", NoForm)
    \/ \E id \in TenantIds : delete_tenant(id)

Spec == Init /\ [][Next]_vars

(***************************************************************************)
(* Properties                                                              *)
(***************************************************************************)
Referencing(a) == {t \in DOMAIN tenants : tenants[t].apartment_id = Some(a)}

(* C1: referential integrity is an invariant: every tenant row whose       *)
(* apartment_id is not null references an apartment row that exists,       *)
(* whatever requests were made, valid or not.                              *)
ReferentialIntegrity ==
    \A t \in DOMAIN tenants :
        tenants[t].apartment_id # NULL => tenants[t].apartment_id[1] \in DOMAIN apartments

(* A tenant request that named an absent apartment was just refused, while *)
(* some tenant holds a reference.                                          *)
RefusedDanglingReference ==
    /\ resp.handler \in {"add_tenant", "edit_tenant"}
    /\ resp.outcome = "db_error"
    /\ \E t \in DOMAIN tenants : tenants[t].apartment_id # NULL

(* C2: delete_apartment(A) removes exactly the apartment row A, sets       *)
(* apartment_id to null on exactly the tenants that referenced A, deletes  *)
(* no tenant row and leaves every other row and field as it was.           *)
DeleteApartmentFrame ==
    [][\A id \in ApartmentIds :
        (resp'.handler = "delete_apartment" /\ LoggedIn /\ delete_apartment(id)) =>
            /\ DOMAIN apartments' = DOMAIN apartments \ {id}
            /\ \A a \in DOMAIN apartments' : apartments'[a] = apartments[a]
            /\ DOMAIN tenants' = DOMAIN tenants
            /\ \A t \in DOMAIN tenants :
                 IF tenants[t].apartment_id = Some(id)
                 THEN /\ tenants'[t].apartment_id = NULL
                      /\ tenants'[t] = [tenants[t] EXCEPT !.apartment_id = NULL]
                 ELSE tenants'[t] = tenants[t]
            /\ users' = users]_vars

(* Apartment 1 was just deleted; its seeded tenant is still there, now     *)
(* unassigned.                                                             *)
DeletedOccupiedApartment ==
    /\ resp.handler = "delete_apartment"
    /\ resp.outcome = "ok"
    /\ 1 \notin DOMAIN apartments
    /\ 1 \in DOMAIN tenants
    /\ tenants[1].apartment_id = NULL
    /\ tenants[1].fullName = "Abebe Kebede"

Times(listing, a) == Cardinality({i \in 1..Len(listing) : listing[i].id = a})

(* C3: in every reachable state the public listing of home() holds an      *)
(* apartment exactly when no tenant row has its id as apartment_id, and    *)
(* holds it once.                                                          *)
PublicListingExact ==
    LET listing == AvailableApartments(apartments, tenants)
    IN  /\ \A i \in 1..Len(listing) : listing[i].id \in DOMAIN apartments
        /\ \A a \in DOMAIN apartments :
             Times(listing, a) = IF Referencing(a) = {} THEN 1 ELSE 0

(* home() answered while two tenants shared one apartment and another      *)
(* apartment was free: the listing has the free ones only.                 *)
ListedWithSharedApartment ==
    /\ resp.handler = "home"
    /\ \E a \in DOMAIN apartments : Cardinality(Referencing(a)) = 2
    /\ \E a \in DOMAIN apartments : Referencing(a) = {} /\ Times(resp.body, a) = 1
    /\ \A a \in DOMAIN apartments : Referencing(a) # {} => Times(resp.body, a) = 0

(* C4: the dashboard figures satisfy occupied_units + available_apartments *)
(* = total_apartments, with occupied_units the number of distinct          *)
(* apartment ids tenants reference, total_apartments the apartment row     *)
(* count, and available_apartments the number of apartments no tenant      *)
(* references, never negative.                                             *)
DashboardConsistent ==
    LET f == DashboardFigures(apartments, tenants)
    IN  /\ f.occupied_units + f.available_apartments = f.total_apartments
        /\ f.total_apartments = Cardinality(DOMAIN apartments)
        /\ f.occupied_units = Cardinality({a \in DOMAIN apartments : Referencing(a) # {}})
        /\ f.available_apartments = Cardinality({a \in DOMAIN apartments : Referencing(a) = {}})
        /\ f.available_apartments >= 0

(* The dashboard answered while two tenants shared one apartment. *)
DashboardWithSharedApartment ==
    /\ resp.handler = "dashboard"
    /\ resp.outcome = "ok"
    /\ \E a \in DOMAIN apartments : Cardinality(Referencing(a)) = 2
    /\ resp.body.figures.total_tenants = 2
    /\ resp.body.figures.available_apartments = 2

FourGiven(form) ==
    /\ {"fullName", "email", "phone", "password"} \subseteq DOMAIN form
    /\ form.fullName # "" /\ form.email # "" /\ form.phone # "" /\ form.password # <<>>

(* C5: emails are unique among user rows in every reachable state; a       *)
(* register request whose email an existing user has ends in the           *)
(* duplicate-email outcome, inserts no row and leaves the existing rows    *)
(* as they were; one with four non-empty fields and a new email inserts    *)
(* exactly one user row.                                                   *)
RegistrationContract ==
    /\ [](\A u, v \in DOMAIN users : users[u].email = users[v].email => u = v)
    /\ [][\A form \in RegisterForms, salt \in Salts :
            (resp'.handler = "register" /\ FourGiven(form) /\ register(form, salt)) =>
                IF \E u \in DOMAIN users : users[u].email = form.email
                THEN /\ resp'.outcome = "duplicate_email"
                     /\ users' = users
                ELSE /\ Cardinality(DOMAIN users') = Cardinality(DOMAIN users) + 1
                     /\ \A u \in DOMAIN users :
                          u \in DOMAIN users' /\ users'[u] = users[u]
                     /\ \A u \in DOMAIN users' \ DOMAIN users :
                          /\ users'[u].email = form.email
                          /\ users'[u].fullName = form.fullName
                          /\ users'[u].phone = form.phone]_vars

(* A registration was just refused for its email, one user being stored. *)
RefusedDuplicateEmail ==
    /\ resp.handler = "register"
    /\ resp.outcome = "duplicate_email"
    /\ Cardinality(DOMAIN users) = 1

Protected ==
    {"dashboard", "add_apartment", "manage_apartments", "edit_apartment",
     "delete_apartment", "add_tenant", "manage_tenants", "edit_tenant", "delete_tenant"}

(* C6: the dashboard and every apartment or tenant handler acts only when  *)
(* the session's logged_in flag is set; without it the request redirects   *)
(* to the public page and leaves all tables unchanged.  Logout clears the  *)
(* flag, and only a successful login sets it again.                        *)
SessionGuard ==
    /\ [](resp.handler = "logout" => ~LoggedIn)
    /\ [][(resp'.handler \in Protected /\ ~LoggedIn) =>
            /\ resp'.outcome = "login_required"
            /\ UNCHANGED <<tables, session>>]_vars
    /\ [][(~LoggedIn /\ LoggedIn') =>
            (resp'.handler = "login" /\ resp'.outcome = "ok")]_vars

(* A protected request was just refused after the data had been changed:   *)
(* a manager logged in, wrote, and logged out before it.                   *)
RefusedAfterLogout ==
    /\ resp.handler \in Protected
    /\ resp.outcome = "login_required"
    /\ ~LoggedIn
    /\ apartments # SeedApartments \/ tenants # SeedTenants

(* C7: a login establishes a session (logged_in, user_id, user_name) only  *)
(* when a user row with the given email exists and the given password      *)
(* verifies against that row's stored hash; any other login establishes    *)
(* no session; no login changes a table.                                   *)
LoginContract ==
    [][\A form \in LoginForms :
        (resp'.handler = "login" /\ login(form)) =>
            /\ UNCHANGED tables
            /\ LET verified ==
                     {u \in DOMAIN users :
                        /\ "loginEmail" \in DOMAIN form
                        /\ users[u].email = form.loginEmail
                        /\ Digest(users[u].password.salt, form.loginPassword)
                             = users[u].password.digest}
               IN  IF verified = {}
                   THEN session' = session /\ resp'.outcome # "ok"
                   ELSE session' # session =>
                          \E u \in verified :
                             session' = [logged_in |-> TRUE, user_id |-> u,
                                         user_name |-> users[u].fullName]]_vars

(* A login was just refused although a user is registered. *)
RefusedLogin ==
    /\ resp.handler = "login"
    /\ resp.outcome = "invalid_credentials"
    /\ users # NoRows
    /\ ~LoggedIn

(* A stored REAL is a number above zero. *)
RealPositive(rent) == rent # NULL /\ RealLess(Finite(0, 0), rent[1])

(* The form gives a count that is not a whole number above zero. *)
BadCount(form, key) ==
    key \in DOMAIN form /\ (~IntOk(form[key]) \/ IntVal(form[key]) <= 0)

(* The form gives a rent that is not a number above zero. *)
BadRent(form) ==
    "rent" \in DOMAIN form /\
        (~FloatOk(form.rent) \/ FloatVal(form.rent).k = "nan" \/ FloatVal(form.rent).m <= 0)

(* C8: every stored apartment has bedrooms > 0, bathrooms > 0 and          *)
(* rent > 0; a create or update request in which one of the three is zero, *)
(* negative or not a number is rejected and leaves the apartment table as  *)
(* it was.                                                                 *)
PositiveApartmentNumbers ==
    /\ [](\A a \in DOMAIN apartments :
            /\ apartments[a].bedrooms > 0
            /\ apartments[a].bathrooms > 0
            /\ RealPositive(apartments[a].rent))
    /\ [][\A id \in ApartmentIds, form \in ApartmentForms :
            (/\ resp'.handler \in {"add_apartment", "edit_apartment"}
             /\ LoggedIn
             /\ BadCount(form, "bedrooms") \/ BadCount(form, "bathrooms") \/ BadRent(form)
             /\ add_apartment("POST", form) \/ edit_apartment(id, "POST", form))
            => (resp'.outcome # "ok" /\ apartments' = apartments)]_vars

RawApartmentId(form) == IF "apartment_id" \in DOMAIN form THEN form.apartment_id ELSE <<>>

(* The apartment_id rule of the tenant forms, on the row a request wrote. *)
ApartmentIdRule(form, outcome, written, unchanged) ==
    IF RawApartmentId(form) \in {<<>>, <<"N", "o", "n", "e">>}
    THEN outcome = "ok" => written.apartment_id = NULL
    ELSE IF IntOk(RawApartmentId(form))
    THEN outcome = "ok" => written.apartment_id = Some(IntVal(RawApartmentId(form)))
    ELSE outcome = "invalid_apartment" /\ unchanged

(* C9: tenant Create and tenant Update apply the same apartment_id rule:   *)
(* "None", an absent or an empty value is stored as null, a numeric string *)
(* as that integer, and any other value ends in a validation message,      *)
(* never a raw exception, and writes nothing.                              *)
TenantApartmentRule ==
    [][\A id \in DOMAIN tenants, form \in TenantForms :
        /\ (/\ resp'.handler = "add_tenant"
            /\ LoggedIn /\ TenantRequired(form) /\ add_tenant("POST", form)) =>
              ApartmentIdRule(form, resp'.outcome,
                  IF resp'.outcome = "ok" THEN tenants'[seq'.tenants] ELSE <<>>,
                  tenants' = tenants)
        /\ (/\ resp'.handler = "edit_tenant"
            /\ LoggedIn /\ TenantRequired(form) /\ edit_tenant(id, "POST", form)) =>
              ApartmentIdRule(form, resp'.outcome, tenants'[id], tenants' = tenants)]_vars

(* C10: apartment Update validates as apartment Create does: it rejects an *)
(* input exactly when Create would, a rejected update leaves the row as it *)
(* was, no stored apartment has an empty name or location, and an update   *)
(* of an absent id is a NotFound that changes nothing.                     *)
EditValidatesLikeAdd ==
    /\ [](\A a \in DOMAIN apartments :
            apartments[a].name # "" /\ apartments[a].location # "")
    /\ [][\A id \in ApartmentIds, form \in ApartmentForms :
            (resp'.handler = "edit_apartment" /\ LoggedIn /\ edit_apartment(id, "POST", form)) =>
                IF id \in DOMAIN apartments
                THEN /\ (resp'.outcome = "ok") <=> (AddApartmentOutcome(form) = "ok")
                     /\ resp'.outcome # "ok" => apartments' = apartments
                ELSE resp'.outcome = "not_found" /\ UNCHANGED tables]_vars

(***************************************************************************)
(* C11: every handler that opens a storage connection releases it on every *)
(* exit path: whenever a request has finished (success, validation         *)
(* failure, not-found, or an error raised), the connection it opened with  *)
(* get_db_connection is closed, so no connection is open between requests. *)
(* The code leaves it open on GET /add_tenant, on delete_tenant for an     *)
(* unknown id, on edit_tenant when int(apartment_id) raises, and on        *)
(* edit_apartment when a form key is missing.                              *)
(***************************************************************************)
ConnectionsReleased == conn # get_db_connection

====
